---- MODULE Spec2Model ----
(***************************************************************************)
(* A model of birdops.py: the run-once pipeline                            *)
(*   load_seen -> for each site {fetch -> filter -> cap -> for each unseen *)
(*   match: send_slack, [log_csv], post_webhook_log, mark seen}            *)
(*   -> save_seen -> no-news notice.                                       *)
(* Python strings are sequences of one-character strings, so that the      *)
(* f-string of obs_key, str.lower, the `in` substring test and the sort    *)
(* order of sorted() are computed, not assumed.                            *)
(***************************************************************************)
EXTENDS Integers, Sequences, FiniteSets, TLC

VARIABLES
    file,         \* seen.json on disk: [kind, val]
    logToCsv,     \* the LOG_TO_CSV switch
    sheetUrlSet,  \* WEBHOOK_LOG_URL is a non-blank string
    watchlist,    \* WATCHLIST
    api,          \* what ebird_recent returns for each site: a list, or FetchError
    run,          \* "first" or "second" invocation of run_once
    pc,           \* position inside run_once
    seen,         \* the local `seen` of run_once
    total_new,    \* the local `total_new` of run_once
    i,            \* index of the current site in SITES
    matches,      \* matches[:50] of the current site
    j,            \* index of the current match
    seen0,        \* history: what load_seen returned in this run
    alerts,       \* history: chat alerts posted in this run, [site, key]
    rows,         \* history: row-webhook posts issued in this run (keys)
    noNews,       \* history: chat posts of NO_NEWS_TEXT in this run
    lastSave,     \* history: outcome of the latest save_seen
    saved,        \* history: the set handed to the latest save_seen
    keyIn,        \* pure-function harness: the two input tuples of obs_key
    keyOut,       \* pure-function harness: the two keys computed
    mObs,         \* pure-function harness: observation given to match_watchlist
    mW,           \* pure-function harness: the watchlist
    mRes          \* pure-function harness: result of match_watchlist

runVars == <<file, logToCsv, sheetUrlSet, watchlist, api, run, pc, seen, total_new, i,
             matches, j, seen0, alerts, rows, noNews, lastSave, saved>>
keyVars == <<keyIn, keyOut>>
matchVars == <<mObs, mW, mRes>>
vars == <<runVars, keyVars, matchVars>>

----------------------------------------------------------------------------
(* Bounds *)

\* stands for the 5000 of save_seen (birdops.py:99-100), scaled down
SeenCap == 3
\* stands for the 50 of matches[:50] (birdops.py:126), scaled down
MatchCap == 2
\* longest list an API response has
MaxObs == 3
\* longest watchlist given to match_watchlist in the harness
MaxW == 2

----------------------------------------------------------------------------
(* Python strings *)

\* the characters used, in code-point order (digits < upper < lower < "|")
Alphabet == <<"0", "1", "2", "A", "B", "N", "a", "b", "c", "e", "n", "o", "x", "y", "z", "|">>

Ord(c) == CHOOSE n \in 1..Len(Alphabet) : Alphabet[n] = c

\* str < str: code-point lexicographic order, a proper prefix sorts first
RECURSIVE StrLess(_, _)
StrLess(a, b) ==
    IF b = <<>> THEN FALSE
    ELSE IF a = <<>> THEN TRUE
    ELSE IF Head(a) = Head(b) THEN StrLess(Tail(a), Tail(b))
    ELSE Ord(Head(a)) < Ord(Head(b))

LowerChar(c) == IF c = "A" THEN "a" ELSE IF c = "B" THEN "b" ELSE IF c = "N" THEN "n" ELSE c

\* str.lower()
Lower(s) == [n \in 1..Len(s) |-> LowerChar(s[n])]

\* w in name (substring test)
Contains(name, w) ==
    \E n \in 0..(Len(name) - Len(w)) : SubSeq(name, n + 1, n + Len(w)) = w

\* Python None, as a value no string equals
None == <<"None">>

\* how an f-string renders a field: None prints as the four letters None
Format(v) == IF v = None THEN <<"N", "o", "n", "e">> ELSE v

\* (x or ""): None and the empty string both give ""
OrEmpty(v) == IF v = None THEN <<>> ELSE v

Range(s) == {s[n] : n \in 1..Len(s)}

Min(a, b) == IF a < b THEN a ELSE b

----------------------------------------------------------------------------
(* Configuration *)

SEND_NO_NEWS_MESSAGE == TRUE
LOG_TO_CSV == FALSE

\* two sites, so that one fetch can fail while another succeeds
SITES == << [id |-> <<"a">>], [id |-> <<"b">>] >>
NumSites == Len(SITES)

\* the watchlists a run is configured with: entries are stripped, lowercased
\* and non-empty; the empty list is what an unset WATCHLIST gives
Watchlists == { <<>>, << <<"a", "b">> >>, << <<"a", "b">>, <<"x">> >> }

----------------------------------------------------------------------------
(* Pure functions *)

match_watchlist_failopen(obs, W) ==
    LET name == Lower(OrEmpty(obs.comName))
        code == Lower(OrEmpty(obs.speciesCode))
        by_name == \E n \in 1..Len(W) : Contains(name, W[n])
        by_code == \E n \in 1..Len(W) : W[n] = code
    IN  W = <<>> \/ by_name \/ by_code

match_watchlist(obs, W) ==
    LET name == Lower(OrEmpty(obs.comName))
        code == Lower(OrEmpty(obs.speciesCode))
        by_name == IF W # <<>> THEN \E n \in 1..Len(W) : Contains(name, W[n]) ELSE FALSE
        by_code == IF W # <<>> THEN \E n \in 1..Len(W) : W[n] = code ELSE FALSE
    IN  by_name \/ by_code

Bar == <<"|">>

obs_key(site_id, o) ==
    Format(site_id) \o Bar \o Format(o.speciesCode) \o Bar \o Format(o.obsDt)
        \o Bar \o Format(o.lat) \o Bar \o Format(o.lng)

\* sorted(seen)
RECURSIVE Sorted(_)
Sorted(S) ==
    IF S = {} THEN <<>>
    ELSE LET m == CHOOSE x \in S : \A y \in S : x = y \/ StrLess(x, y)
         IN  <<m>> \o Sorted(S \ {m})

Truncate_offbyone(data) ==
    IF Len(data) >= SeenCap THEN SubSeq(data, Len(data) - SeenCap + 2, Len(data)) ELSE data

Truncate_first(data) ==
    IF Len(data) > SeenCap THEN SubSeq(data, 1, SeenCap) ELSE data

\* if len(data) > 5000: data = data[-5000:]
Truncate(data) ==
    IF Len(data) > SeenCap THEN SubSeq(data, Len(data) - SeenCap + 1, Len(data)) ELSE data

\* the file json.dump(data, f) leaves behind
JsonArray(data) == [kind |-> "array", val |-> data]
\* a file that open() finds but json.load() cannot parse
Invalid == [kind |-> "invalid", val |-> <<>>]

\* set(json.load(f)); any exception gives set()
load_seen(f) ==
    IF f.kind = "array" THEN Range(f.val)                        \* a JSON array of strings
    ELSE IF f.kind = "string" THEN {<<c>> : c \in Range(f.val)}  \* set("ab") = {"a", "b"}
    ELSE {}    \* missing, unreadable: open() raises; invalid: json.load() raises

\* matches = [o for o in obs if match_watchlist(o)]
RECURSIVE Filter(_, _)
Filter(obs, W) ==
    IF obs = <<>> THEN <<>>
    ELSE IF match_watchlist(Head(obs), W) THEN <<Head(obs)>> \o Filter(Tail(obs), W)
    ELSE Filter(Tail(obs), W)

Capped_none(ms) == ms

\* matches[:50]
Capped(ms) == SubSeq(ms, 1, Min(MatchCap, Len(ms)))

----------------------------------------------------------------------------
(* Inputs of a run *)

\* observations the API returns: ObsA matches "ab" by name (after lower()),
\* ObsB matches "x" by species code only, so it is no match for <<"ab">>
ObsA == [comName |-> <<"A", "b">>, speciesCode |-> <<"y">>, obsDt |-> <<"1">>,
         lat |-> <<"0">>, lng |-> <<"1">>]
ObsB == [comName |-> None, speciesCode |-> <<"x">>, obsDt |-> <<"2">>,
         lat |-> <<"0">>, lng |-> <<"1">>]
Observations == {ObsA, ObsB}

RECURSIVE SeqsUpTo(_, _)
SeqsUpTo(S, n) ==
    IF n = 0 THEN {<<>>}
    ELSE LET shorter == SeqsUpTo(S, n - 1)
         IN  shorter \cup {Append(q, x) : q \in {r \in shorter : Len(r) = n - 1}, x \in S}

\* ebird_recent raised (network error, HTTP error status, body that is not JSON)
FetchError == [ok |-> FALSE, obs |-> <<>>]
Responses == {[ok |-> TRUE, obs |-> q] : q \in SeqsUpTo(Observations, MaxObs)} \cup {FetchError}

\* keys left by earlier runs; they sort after every key of sites "a" and "b"
OldKey(n) == [m \in 1..n |-> "z"]
OldKeys == {OldKey(n) : n \in 1..SeenCap}

\* seen.json before the first run
InitialFiles ==
    { [kind |-> "missing", val |-> <<>>],
      [kind |-> "unreadable", val |-> <<>>],
      Invalid,
      [kind |-> "string", val |-> <<"a", "b">>],
      JsonArray(Sorted(OldKeys)) }

site_key == obs_key(SITES[i].id, matches[j])

----------------------------------------------------------------------------
(* run_once *)

InitRun ==
    /\ file \in InitialFiles
    /\ sheetUrlSet \in BOOLEAN
    /\ watchlist \in Watchlists
    /\ api \in [1..NumSites -> Responses]
    /\ run = "first"
    /\ pc = "start"
    /\ seen = {}
    /\ total_new = 0
    /\ i = 1
    /\ matches = <<>>
    /\ j = 1
    /\ seen0 = {}
    /\ alerts = <<>>
    /\ rows = <<>>
    /\ noNews = 0
    /\ lastSave = "none"
    /\ saved = {}

IdleHarness ==
    /\ keyIn = <<>>
    /\ keyOut = <<>>
    /\ mObs = ObsA
    /\ mW = <<>>
    /\ mRes = "none"

config == <<logToCsv, sheetUrlSet, watchlist, api>>
harness == <<keyVars, matchVars>>

\* total_new = 0; seen = load_seen()
Load ==
    /\ pc = "start"
    /\ seen' = load_seen(file)
    /\ seen0' = load_seen(file)
    /\ total_new' = 0
    /\ i' = 1
    /\ pc' = IF NumSites >= 1 THEN "fetch" ELSE "save"
    /\ UNCHANGED <<file, config, run, matches, j, alerts, rows, noNews, lastSave,
                   saved, harness>>

\* the for loop over SITES moves on: next site, or past the loop
NextSite ==
    /\ i' = i + 1
    /\ pc' = IF i < NumSites THEN "fetch" ELSE "save"

FetchFailed_raise ==
    /\ pc = "fetch"
    /\ api[i] = FetchError
    /\ pc' = "crashed"
    /\ UNCHANGED <<file, config, run, seen, total_new, i, matches, j, seen0, alerts,
                   rows, noNews, lastSave, saved, harness>>

\* except Exception: print warning; continue
FetchFailed ==
    /\ pc = "fetch"
    /\ api[i] = FetchError
    /\ NextSite
    /\ UNCHANGED <<file, config, run, seen, total_new, matches, j, seen0, alerts,
                   rows, noNews, lastSave, saved, harness>>

\* obs = ebird_recent(...); matches = [...]; for o in matches[:50]
Fetched ==
    /\ pc = "fetch"
    /\ api[i] # FetchError
    /\ matches' = Capped(Filter(api[i].obs, watchlist))
    /\ j' = 1
    /\ pc' = "match"
    /\ UNCHANGED <<file, config, run, seen, total_new, i, seen0, alerts, rows,
                   noNews, lastSave, saved, harness>>

\* the for loop over matches[:50] is exhausted
MatchesDone ==
    /\ pc = "match"
    /\ j > Len(matches)
    /\ NextSite
    /\ UNCHANGED <<file, config, run, seen, total_new, matches, j, seen0, alerts,
                   rows, noNews, lastSave, saved, harness>>

IsSeen_loaded(key) == key \in seen0

\* if key in seen
IsSeen(key) == key \in seen

\* key = obs_key(site["id"], o); if key in seen: continue
SkipSeen ==
    /\ pc = "match"
    /\ j <= Len(matches)
    /\ IsSeen(site_key)
    /\ j' = j + 1
    /\ UNCHANGED <<file, config, run, pc, seen, total_new, i, matches, seen0,
                   alerts, rows, noNews, lastSave, saved, harness>>

\* the key is new: send_slack(text, blocks). requests.post and raise_for_status sit inside
\* try/except Exception, so every outcome returns normally
SendSlack ==
    /\ pc = "match"
    /\ j <= Len(matches)
    /\ ~IsSeen(site_key)
    /\ \E outcome \in {"ok", "http_error", "no_connection"} :
          alerts' = Append(alerts, [site |-> i, key |-> site_key])
    /\ pc' = IF logToCsv THEN "csv" ELSE "sheet"
    /\ UNCHANGED <<file, config, run, seen, total_new, i, matches, j, seen0,
                   rows, noNews, lastSave, saved, harness>>

\* log_csv(row): open() and the writes are not inside any try, so an OSError
\* leaves run_once
LogCsv ==
    /\ pc = "csv"
    /\ \E outcome \in {"ok", "os_error"} :
          pc' = IF outcome = "ok" THEN "sheet" ELSE "crashed"
    /\ UNCHANGED <<file, config, run, seen, total_new, i, matches, j, seen0,
                   alerts, rows, noNews, lastSave, saved, harness>>

\* post_webhook_log(row); seen.add(key); total_new += 1
PostWebhookLog ==
    /\ pc = "sheet"
    /\ IF sheetUrlSet
       THEN \E outcome \in {"ok", "status_300_up", "no_connection"} :
               rows' = Append(rows, site_key)
       ELSE rows' = rows          \* if not url: return
    /\ seen' = seen \cup {site_key}
    /\ total_new' = total_new + 1
    /\ j' = j + 1
    /\ pc' = "match"
    /\ UNCHANGED <<file, config, run, i, matches, seen0, alerts, noNews, lastSave,
                   saved, harness>>

\* save_seen(seen): sorted, truncated, dumped; any exception is swallowed.
\* open(SEEN_PATH, "w") may fail and leave the file as it was; json.dump may
\* fail part-way and leave a file that does not parse
SaveSeen ==
    /\ pc = "save"
    /\ \E outcome \in {"ok", "open_failed", "write_failed"} :
          /\ lastSave' = outcome
          /\ file' = IF outcome = "ok" THEN JsonArray(Truncate(Sorted(seen)))
                     ELSE IF outcome = "open_failed" THEN file
                     ELSE Invalid
    /\ saved' = seen
    /\ pc' = "nonews"
    /\ UNCHANGED <<config, run, seen, total_new, i, matches, j, seen0, alerts,
                   rows, noNews, harness>>

NoNewsDue_always == SEND_NO_NEWS_MESSAGE

\* if total_new == 0 and SEND_NO_NEWS_MESSAGE
NoNewsDue == total_new = 0 /\ SEND_NO_NEWS_MESSAGE

\* the no-news notice, then run_once returns
NoNews ==
    /\ pc = "nonews"
    /\ noNews' = IF NoNewsDue THEN noNews + 1 ELSE noNews
    /\ pc' = "done"
    /\ UNCHANGED <<file, config, run, seen, total_new, i, matches, j, seen0,
                   alerts, rows, lastSave, saved, harness>>

\* the script is invoked again, with the same API responses
SecondRun ==
    /\ pc = "done"
    /\ run = "first"
    /\ run' = "second"
    /\ pc' = "start"
    /\ seen' = {}
    /\ seen0' = {}
    /\ total_new' = 0
    /\ i' = 1
    /\ matches' = <<>>
    /\ j' = 1
    /\ alerts' = <<>>
    /\ rows' = <<>>
    /\ noNews' = 0
    /\ UNCHANGED <<file, config, lastSave, saved, harness>>

Init == InitRun /\ logToCsv = LOG_TO_CSV /\ IdleHarness

Next ==
    \/ Load
    \/ FetchFailed
    \/ Fetched
    \/ MatchesDone
    \/ SkipSeen
    \/ SendSlack
    \/ PostWebhookLog
    \/ SaveSeen
    \/ NoNews
    \/ SecondRun

Spec == Init /\ [][Next]_vars

----------------------------------------------------------------------------
(* The same pipeline with the LOG_TO_CSV switch flipped on, as the comment *)
(* at birdops.py:149 describes                                             *)

InitCsv == InitRun /\ logToCsv = TRUE /\ IdleHarness

NextCsv == Next \/ LogCsv

SpecCsv == InitCsv /\ [][NextCsv]_vars

----------------------------------------------------------------------------
(* Harness for the pure functions: the run does not move *)

IdleRun ==
    /\ file = [kind |-> "missing", val |-> <<>>]
    /\ logToCsv = LOG_TO_CSV
    /\ sheetUrlSet = FALSE
    /\ watchlist = <<>>
    /\ api = [s \in 1..NumSites |-> FetchError]
    /\ run = "first"
    /\ pc = "idle"
    /\ seen = {}
    /\ total_new = 0
    /\ i = 1
    /\ matches = <<>>
    /\ j = 1
    /\ seen0 = {}
    /\ alerts = <<>>
    /\ rows = <<>>
    /\ noNews = 0
    /\ lastSave = "none"
    /\ saved = {}

\* field values an API record or a site id can hold, among them the
\* separator, the text None and a missing field
FieldVals == {None, <<"N", "o", "n", "e">>, <<"a">>, <<"a", "|", "a">>}
CoordVals == {None, <<"0">>}

KeyInputs ==
    [site_id : FieldVals, speciesCode : FieldVals, obsDt : FieldVals,
     lat : CoordVals, lng : CoordVals]

InitKey ==
    /\ IdleRun
    /\ keyIn = <<>>
    /\ keyOut = <<>>
    /\ mObs = ObsA
    /\ mW = <<>>
    /\ mRes = "none"

\* one call of obs_key(site_id, o)
ObsKey ==
    /\ Len(keyIn) < 2
    /\ \E t \in KeyInputs :
          /\ keyIn' = Append(keyIn, t)
          /\ keyOut' = Append(keyOut, obs_key(t.site_id, t))
    /\ UNCHANGED <<runVars, matchVars>>

SpecKey == InitKey /\ [][ObsKey]_vars

\* names and codes an observation can carry
NameVals == {None, <<>>, <<"A", "b">>, <<"c", "A", "B">>, <<"b", "a">>, <<"x">>}
CodeVals == {None, <<>>, <<"x">>, <<"X">>, <<"x", "y">>, <<"a", "b">>}
\* watchlist entries: stripped, lowercased, non-empty (birdops.py:23)
Entries == {<<"a", "b">>, <<"x">>}

InitMatch ==
    /\ IdleRun
    /\ keyIn = <<>>
    /\ keyOut = <<>>
    /\ mObs \in {[ObsA EXCEPT !.comName = n, !.speciesCode = c] : n \in NameVals, c \in CodeVals}
    /\ mW \in SeqsUpTo(Entries, MaxW)
    /\ mRes = "none"

\* one call of match_watchlist(obs)
Match ==
    /\ mRes = "none"
    /\ mRes' = IF match_watchlist(mObs, mW) THEN "true" ELSE "false"
    /\ UNCHANGED <<runVars, keyVars, mObs, mW>>

SpecMatch == InitMatch /\ [][Match]_vars

----------------------------------------------------------------------------
(* Properties *)

AlertKeys == {alerts[n].key : n \in 1..Len(alerts)}
RowKeys == Range(rows)
AlertsOfSite(s) == {n \in 1..Len(alerts) : alerts[n].site = s}

\* the watchlist matches of site s, uncapped, in the API's order
MatchesOf(s) == Filter(api[s].obs, watchlist)

\* the state right after load_seen returned
AfterLoad == pc = "fetch" /\ i = 1

\* C1: a key that load_seen returned, or that was notified earlier in the
\* run, gets no chat alert and no row post: every key is alerted at most
\* once per run and never when it was loaded as seen
C1_NeverRenotified ==
    /\ \A n \in 1..Len(alerts) :
          /\ alerts[n].key \notin seen0
          /\ \A m \in 1..(n - 1) : alerts[m].key # alerts[n].key
    /\ \A n \in 1..Len(rows) :
          /\ rows[n] \notin seen0
          /\ \A m \in 1..(n - 1) : rows[m] # rows[n]
    /\ (pc \in {"csv", "sheet"} => site_key \notin seen)

\* a site whose matches hold the same observation twice has been processed
\* and the observation was alerted
C1_Witness ==
    /\ pc = "match"
    /\ j > Len(matches)
    /\ Len(matches) = 2
    /\ matches[1] = matches[2]
    /\ obs_key(SITES[i].id, matches[1]) \in AlertKeys

\* C2: a second run over the same API responses, started from the file the
\* first run saved, issues no alert, no row post and counts no new alert
C2_SecondRunSilent ==
    (run = "second" /\ pc \in {"fetch", "match", "csv", "sheet", "save"} /\ lastSave = "ok")
        => (alerts = <<>> /\ rows = <<>> /\ total_new = 0)

\* the claim's reading of "lowercased name contains w": name = pre + w + suf
IsInfix(w, t) ==
    \E a \in 0..Len(t), b \in 0..Len(t) :
        a <= b /\ t = SubSeq(t, 1, a) \o w \o SubSeq(t, b + 1, Len(t))

\* C3: match_watchlist is true exactly when the watchlist is non-empty and
\* some entry is a substring of the lowercased name or equals the lowercased
\* code; a missing name or code counts as the empty string
C3_MatchIff ==
    mRes # "none" =>
        ((mRes = "true") <=>
            /\ Len(mW) > 0
            /\ \E w \in Range(mW) :
                  \/ IsInfix(w, Lower(IF mObs.comName = None THEN <<>> ELSE mObs.comName))
                  \/ Lower(IF mObs.speciesCode = None THEN <<>> ELSE mObs.speciesCode) = w)

\* a match by species code alone, on an observation without a name
C3_Witness == mRes = "true" /\ mObs.comName = None /\ Len(mW) = 2

\* C4: two calls of obs_key return the same key exactly when all five
\* inputs are the same
C4_Injective ==
    Len(keyOut) = 2 => ((keyOut[1] = keyOut[2]) <=> (keyIn[1] = keyIn[2]))

\* C5: what save_seen wrote for a set of at most 5000 keys, load_seen
\* returns as the same set; a missing, unreadable or unparseable file loads
\* as the empty set and the run goes on
C5_RoundTrip ==
    /\ (AfterLoad /\ run = "second" /\ lastSave = "ok" /\ Cardinality(saved) <= SeenCap)
          => seen = saved
    /\ (AfterLoad /\ file.kind \in {"missing", "unreadable", "invalid"}) => seen = {}
    /\ pc # "crashed"

\* the second run has loaded a full-size set that the first run saved
C5_Witness ==
    /\ AfterLoad
    /\ run = "second"
    /\ lastSave = "ok"
    /\ Cardinality(saved) = SeenCap
    /\ seen # {}

\* the keys of S that have fewer than 5000 keys of S sorting after them
Greatest(S) == {k \in S : Cardinality({m \in S : StrLess(k, m)}) < SeenCap}

\* C6: a successful save_seen of more than 5000 keys writes exactly the 5000
\* keys that sort last, each once; a smaller set is written in full
C6_Truncation ==
    (pc = "nonews" /\ lastSave = "ok") =>
        /\ file.kind = "array"
        /\ Len(file.val) = Min(Cardinality(saved), SeenCap)
        /\ Cardinality(Range(file.val)) = Len(file.val)
        /\ Range(file.val) = Greatest(saved)
        /\ (Cardinality(saved) <= SeenCap => Range(file.val) = saved)

\* an oversized set was saved and a key added in this very run was dropped
C6_Witness ==
    /\ pc = "nonews"
    /\ lastSave = "ok"
    /\ Cardinality(saved) > SeenCap
    /\ \E k \in saved \ seen0 : k \notin Range(file.val)

\* C7: a failed fetch skips its site only: once the loop over the sites is
\* over, every capped match of every site that was fetched is seen and was
\* alerted unless loaded as seen, the alerts, the count and the added keys
\* come from fetched sites only, and the run did not stop short of save_seen
C7_FetchFailureIsolated ==
    /\ pc # "crashed"
    /\ \A n \in 1..Len(alerts) : api[alerts[n].site].ok
    /\ pc \in {"save", "nonews", "done"} =>
          /\ \A s \in 1..NumSites : api[s].ok =>
                LET ms == MatchesOf(s)
                IN  \A n \in 1..Min(MatchCap, Len(ms)) :
                        LET k == obs_key(SITES[s].id, ms[n])
                        IN  /\ k \in seen
                            /\ k \in seen0 \/ \E a \in AlertsOfSite(s) : alerts[a].key = k
          /\ total_new = Len(alerts)
          /\ seen \ seen0 = AlertKeys
    /\ (pc \in {"nonews", "done"} => lastSave # "none" /\ saved = seen)

\* the first site's fetch failed, the second site's match was alerted and
\* the run finished
C7_Witness ==
    /\ pc = "done"
    /\ ~api[1].ok
    /\ AlertsOfSite(2) # {}
    /\ total_new = Cardinality(AlertsOfSite(2))

\* C8: a failing sink never stops the run, and every alerted match gets its
\* row post when the row webhook is configured
C8_SinksIndependent ==
    /\ pc # "crashed"
    /\ (sheetUrlSet /\ pc \in {"match", "save", "nonews", "done"}) => RowKeys = AlertKeys

\* C9: the no-news text is posted once, after save_seen, exactly when the
\* run counted no new alert; such a run posts no row and no alert
C9_NoNews ==
    /\ (pc = "done" => noNews = (IF total_new = 0 THEN 1 ELSE 0))
    /\ (pc # "done" => noNews = 0)
    /\ (noNews > 0 => lastSave # "none" /\ saved = seen)
    /\ (pc \in {"save", "nonews", "done"} /\ total_new = 0) => (alerts = <<>> /\ rows = <<>>)

\* a run that fetched matches, all of them already seen, posted the notice
C9_Witness ==
    /\ pc = "done"
    /\ noNews = 1
    /\ \E s \in 1..NumSites : api[s].ok /\ Len(MatchesOf(s)) > 0

\* C10: per site at most 50 alerts, and only keys of a site's first 50
\* matches are alerted or marked seen in a run, whatever the seen-set held
C10_PerSiteCap ==
    /\ \A s \in 1..NumSites : Cardinality(AlertsOfSite(s)) <= MatchCap
    /\ ((seen \ seen0) \cup AlertKeys \cup RowKeys) \subseteq
          UNION { LET ms == MatchesOf(s)
                  IN  {obs_key(SITES[s].id, ms[n]) : n \in 1..Min(MatchCap, Len(ms))} :
                  s \in {t \in 1..NumSites : api[t].ok} }

\* a site had a match past the cap that stayed unseen and unalerted although
\* fewer than 50 alerts went out for the site
C10_Witness ==
    /\ pc = "done"
    /\ \E s \in 1..NumSites :
          /\ api[s].ok
          /\ Len(MatchesOf(s)) > MatchCap
          /\ obs_key(SITES[s].id, MatchesOf(s)[MatchCap + 1]) \notin seen
          /\ Cardinality(AlertsOfSite(s)) < MatchCap

====
